---- MODULE Spec2Model ----
(***************************************************************************)
(* Model of the access-session collector (check_access_sessions.py): one   *)
(* collection run per worker, from main() being entered to its return or   *)
(* to the exception that leaves it.  Device output and HTTP replies are    *)
(* text, and the parsing of check_access_sessions.py is computed on that   *)
(* text character by character.                                            *)
(***************************************************************************)
EXTENDS Integers, Sequences, FiniteSets, TLC

(* ------------------------------ bounds --------------------------------- *)

\* Longest MAC list the inventory text of one run may hold.
MaxMacs == 3

\* The threads that run main(); Spec has one.
Workers == {"w1"}

(* --------------------------- character classes -------------------------- *)

UpperCase == "ABCDEFGHIJKLMNOPQRSTUVWXYZ"
LowerCase == "abcdefghijklmnopqrstuvwxyz"
Digits == "0123456789"

\* s[i] of Python, "" outside the string.
Ch(s, i) == IF i >= 1 /\ i <= Len(s) THEN SubSeq(s, i, i) ELSE ""

CharsOf(s) == {SubSeq(s, i, i) : i \in 1..Len(s)}

DigitChars == CharsOf(Digits)
HexChars == CharsOf(Digits) \cup CharsOf("abcdefABCDEF")
WordChars == CharsOf(Digits) \cup CharsOf(UpperCase) \cup CharsOf(LowerCase) \cup {"_"}
UpperChars == CharsOf(UpperCase)

\* \d
IsDigit(c) == c \in DigitChars

\* [0-9a-fA-F]
IsHex(c) == c \in HexChars

\* \w
IsWord(c) == c \in WordChars

\* The characters \s of a str pattern matches among the ASCII characters:
\* blank, \t, \n, \r, \f, the vertical tab \x0b and the separators \x1c,
\* \x1d, \x1e and \x1f.
SpaceChars == {" ", "\n", "\t", "\r", "\f", "", "", "", "", ""}

\* \s
IsSpace(c) == c \in SpaceChars

\* str.lower() on one character.
LowerChar(c) ==
    IF c \in UpperChars
    THEN LET i == CHOOSE j \in 1..Len(UpperCase) : SubSeq(UpperCase, j, j) = c
         IN  SubSeq(LowerCase, i, i)
    ELSE c

RECURSIVE Lower(_)
\* str.lower()
Lower(s) == IF s = "" THEN "" ELSE LowerChar(Head(s)) \o Lower(Tail(s))

\* s.startswith(lit, i - 1): the literal lit stands at position i of s.
LitAt(s, i, lit) ==
    /\ i >= 1
    /\ i + Len(lit) - 1 <= Len(s)
    /\ SubSeq(s, i, i + Len(lit) - 1) = lit

\* lit in s
Contains(s, lit) == \E i \in 1..Len(s) : LitAt(s, i, lit)

\* Position of the end of the line that holds position i: the last position
\* that "." of a regular expression can still match, starting at i.
LineEnd(s, i) ==
    IF i > Len(s) THEN i - 1
    ELSE CHOOSE e \in (i - 1)..Len(s) :
             /\ \A j \in i..e : Ch(s, j) # "\n"
             /\ e = Len(s) \/ Ch(s, e + 1) = "\n"

\* Smallest element of a non-empty set of positions.
First(S) == CHOOSE j \in S : \A k \in S : j <= k

\* Number of characters of class digit starting at i.
RECURSIVE DigitRun(_, _)
DigitRun(s, i) == IF IsDigit(Ch(s, i)) THEN 1 + DigitRun(s, i + 1) ELSE 0

\* Number of whitespace characters starting at i.
RECURSIVE SpaceRun(_, _)
SpaceRun(s, i) == IF IsSpace(Ch(s, i)) THEN 1 + SpaceRun(s, i + 1) ELSE 0

\* Number of word characters starting at i.
RECURSIVE WordRun(_, _)
WordRun(s, i) == IF IsWord(Ch(s, i)) THEN 1 + WordRun(s, i + 1) ELSE 0

(* ----------------- the regular expressions of the collector -------------- *)

\* [0-9a-fA-F]{4}\.[0-9a-fA-F]{4}\.[0-9a-fA-F]{4} matches at position i.
MacAt(s, i) ==
    /\ i >= 1
    /\ i + 13 <= Len(s)
    /\ \A k \in {0, 1, 2, 3, 5, 6, 7, 8, 10, 11, 12, 13} : IsHex(Ch(s, i + k))
    /\ Ch(s, i + 4) = "."
    /\ Ch(s, i + 9) = "."

RECURSIVE FindAllMacFrom(_, _)
\* The matches that start at position i or later, leftmost first, none
\* overlapping the one before it.
FindAllMacFrom(s, i) ==
    LET hits == {j \in i..Len(s) : MacAt(s, j)}
    IN  IF hits = {} THEN <<>>
        ELSE LET j == First(hits)
             IN  <<SubSeq(s, j, j + 13)>> \o FindAllMacFrom(s, j + 14)

\* re.findall(r"[0-9a-fA-F]{4}\.[0-9a-fA-F]{4}\.[0-9a-fA-F]{4}", s)
FindAllMac(s) == FindAllMacFrom(s, 1)

\* Length of the match of \d{1,3}\.\d{1,3}\.\d{1,3}\.\d{1,3} at position i,
\* 0 when there is none.  Each of the first three groups is followed by a
\* literal dot, so it is the whole digit run; the last group is greedy.
IpLenAt(s, i) ==
    LET r1 == DigitRun(s, i)
        p2 == i + r1 + 1
        r2 == DigitRun(s, p2)
        p3 == p2 + r2 + 1
        r3 == DigitRun(s, p3)
        p4 == p3 + r3 + 1
        r4 == DigitRun(s, p4)
    IN  IF /\ r1 \in 1..3 /\ Ch(s, i + r1) = "."
           /\ r2 \in 1..3 /\ Ch(s, p2 + r2) = "."
           /\ r3 \in 1..3 /\ Ch(s, p3 + r3) = "."
           /\ r4 >= 1
        THEN (p4 - i) + (IF r4 > 3 THEN 3 ELSE r4)
        ELSE 0

RECURSIVE FindAllIpFrom(_, _)
FindAllIpFrom(s, i) ==
    LET hits == {j \in i..Len(s) : IpLenAt(s, j) > 0}
    IN  IF hits = {} THEN <<>>
        ELSE LET j == First(hits)
                 n == IpLenAt(s, j)
             IN  <<SubSeq(s, j, j + n - 1)>> \o FindAllIpFrom(s, j + n)

\* re.findall(r"\d{1,3}\.\d{1,3}\.\d{1,3}\.\d{1,3}", s)
FindAllIp(s) == FindAllIpFrom(s, 1)

\* Length of the group (\w{3,5}) of (\w{3,5})\s+Authc\s.* matched at
\* position i, 0 when there is no match at i.  The group is followed by
\* whitespace, so it ends where the word run ends.
MethodLenAt(s, i) ==
    LET k  == WordRun(s, i)
        sp == SpaceRun(s, i + k)
    IN  IF /\ k \in 3..5
           /\ sp >= 1
           /\ LitAt(s, i + k + sp, "Authc")
           /\ IsSpace(Ch(s, i + k + sp + 5))
        THEN k
        ELSE 0

RECURSIVE FindAllMethodFrom(_, _)
FindAllMethodFrom(s, i) ==
    LET hits == {j \in i..Len(s) : MethodLenAt(s, j) > 0}
    IN  IF hits = {} THEN <<>>
        ELSE LET j    == First(hits)
                 k    == MethodLenAt(s, j)
                 rest == j + k + SpaceRun(s, j + k) + 6
             IN  <<SubSeq(s, j, j + k - 1)>> \o FindAllMethodFrom(s, LineEnd(s, rest) + 1)

\* re.findall(r"(\w{3,5})\s+Authc\s.*", s)
FindAllMethod(s) == FindAllMethodFrom(s, 1)

\* re.findall(lit + r"(.*)", s) from position i on, and with spaces = TRUE
\* re.findall(lit + r"\s+(.*)", s).
RECURSIVE FindAllAfterFrom(_, _, _, _)
FindAllAfterFrom(s, i, lit, spaces) ==
    LET hits == {j \in i..Len(s) :
                    LitAt(s, j, lit) /\ (spaces => SpaceRun(s, j + Len(lit)) >= 1)}
    IN  IF hits = {} THEN <<>>
        ELSE LET j    == First(hits)
                 sp   == IF spaces THEN SpaceRun(s, j + Len(lit)) ELSE 0
                 from == j + Len(lit) + sp
                 to   == LineEnd(s, from)
             IN  <<SubSeq(s, from, to)>> \o FindAllAfterFrom(s, to + 1, lit, spaces)

FindAllAfter(s, lit, spaces) == FindAllAfterFrom(s, 1, lit, spaces)

RECURSIVE FindAllCountFrom(_, _)
FindAllCountFrom(s, i) ==
    LET lit  == "Session count = "
        hits == {j \in i..Len(s) :
                    /\ LitAt(s, j, lit)
                    /\ DigitRun(s, j + Len(lit)) >= 1
                    /\ Ch(s, j + Len(lit) + DigitRun(s, j + Len(lit))) = "\n"}
    IN  IF hits = {} THEN <<>>
        ELSE LET from == First(hits) + Len(lit)
                 r    == DigitRun(s, from)
             IN  <<SubSeq(s, from, from + r - 1)>> \o FindAllCountFrom(s, from + r + 1)

\* re.findall(r"Session count = (\d+)\n", s)
FindAllCount(s) == FindAllCountFrom(s, 1)

(* ------------------------ the parsing of one reply ----------------------- *)

\* HasFailureMarker with the second marker forgotten.
M_HasFailureMarkerFailOnly(text) == Contains(text, "FAIL")

\* "FAIL" in session_details or "Unauthorized" in session_details
HasFailureMarker(text) == Contains(text, "FAIL") \/ Contains(text, "Unauthorized")

\* seq[0] if seq else dflt
FirstOr(seq, dflt) == IF Len(seq) > 0 THEN seq[1] ELSE dflt

\* dict_session_details as it stands before the vendor lookup, for the reply
\* text to the detail command of the inventory MAC each.
ParseDetail(text, each) ==
    [status      |-> FirstOr(FindAllAfter(text, "Status:  ", FALSE), "Unknown"),
     interface   |-> FirstOr(FindAllAfter(text, "Interface: ", FALSE), "Unknown"),
     mac_address |-> FirstOr(FindAllMac(text), each),
     ip_address  |-> FirstOr(FindAllIp(text), "unknown"),
     user_name   |-> FirstOr(FindAllAfter(text, "User-Name:", TRUE), "Unknown"),
     method      |-> FirstOr(FindAllMethod(text), "Unknown")]

\* IsMab with the .lower() forgotten.
M_IsMabCaseSensitive(method) == Len(method) > 0 /\ method[1] = "mab"

\* method and method[0].lower() == "mab"
IsMab(method) == Len(method) > 0 /\ Lower(method[1]) = "mab"

\* dict_session_details["vendor"] = v
WithVendor(rec, v) ==
    [k \in DOMAIN rec \cup {"vendor"} |-> IF k = "vendor" THEN v ELSE rec[k]]

(* ------------------ dict_result: an insertion-ordered dict --------------- *)

EmptyDict == <<>>

DictKeys(d) == [i \in 1..Len(d) |-> d[i].key]

DictHas(d, k) == \E i \in 1..Len(d) : d[i].key = k

DictGet(d, k) == d[CHOOSE i \in 1..Len(d) : d[i].key = k].val

\* DictSet as del d[k] followed by d[k] = v: the key moves to the end.
M_DictSetMoveToEnd(d, k, v) ==
    Append(SelectSeq(d, LAMBDA e : e.key # k), [key |-> k, val |-> v])

\* DictSet as d.setdefault(k, v): an existing key keeps its value.
M_DictSetKeepsFirst(d, k, v) ==
    IF DictHas(d, k) THEN d ELSE Append(d, [key |-> k, val |-> v])

\* d[k] = v: an existing key keeps its place, a new key goes last.
DictSet(d, k, v) ==
    IF DictHas(d, k)
    THEN [i \in 1..Len(d) |-> IF d[i].key = k THEN [key |-> k, val |-> v] ELSE d[i]]
    ELSE Append(d, [key |-> k, val |-> v])

\* The ASCII characters \x01 to \x7f in the order of their code points:
\* the character of code n stands at position n.
CodeOrder ==
    "" \o "\t" \o "\n" \o "" \o "\f" \o "\r" \o ""
        \o " !\"#$%&'()*+,-./0123456789:;<=>?@ABCDEFGHIJKLMNOPQRSTUVWXYZ[\\]^_"
        \o SubSeq("`'", 1, 1) \o "abcdefghijklmnopqrstuvwxyz{|}~" \o ""

Codes == [c \in CharsOf(CodeOrder) |->
             CHOOSE j \in 1..Len(CodeOrder) : SubSeq(CodeOrder, j, j) = c]

\* ord(c)
Ord(c) == Codes[c]

RECURSIVE StrLess(_, _)
\* a < b on str
StrLess(a, b) ==
    IF b = "" THEN FALSE
    ELSE IF a = "" THEN TRUE
    ELSE IF Head(a) = Head(b) THEN StrLess(Tail(a), Tail(b))
    ELSE Ord(Head(a)) < Ord(Head(b))

RECURSIVE SortByKey(_)
SortByKey(d) ==
    IF Len(d) = 0 THEN <<>>
    ELSE LET m == CHOOSE i \in 1..Len(d) :
                      \A j \in 1..Len(d) : j = i \/ StrLess(d[i].key, d[j].key)
             rest == [j \in 1..(Len(d) - 1) |-> IF j < m THEN d[j] ELSE d[j + 1]]
         IN  <<d[m]>> \o SortByKey(rest)

RECURSIVE SortStrings(_)
\* sorted(S) for a set of str
SortStrings(S) ==
    IF S = {} THEN <<>>
    ELSE LET m == CHOOSE a \in S : \A b \in S : a = b \/ StrLess(a, b)
         IN  <<m>> \o SortStrings(S \ {m})

HexDigits == "0123456789abcdef"

\* One character of repr(s) between the quotes q: the quote and the
\* backslash behind a backslash, \t, \n and \r by their letter, every other
\* control character (below the blank, and \x7f) as \x and the two hex
\* digits of its code, a printable character as it is.
ReprChar(c, q) ==
    IF c = q THEN "\\" \o q
    ELSE IF c = "\\" THEN "\\\\"
    ELSE IF c = "\t" THEN "\\t"
    ELSE IF c = "\n" THEN "\\n"
    ELSE IF c = "\r" THEN "\\r"
    ELSE IF Ord(c) < 32 \/ Ord(c) = 127
         THEN "\\x" \o Ch(HexDigits, (Ord(c) \div 16) + 1)
                    \o Ch(HexDigits, (Ord(c) % 16) + 1)
    ELSE c

RECURSIVE ReprChars(_, _)
\* The characters of s, each as ReprChar writes it, in their order; the
\* halves of s are taken in turn, which keeps the recursion shallow.
ReprChars(s, q) ==
    IF Len(s) = 0 THEN ""
    ELSE IF Len(s) = 1 THEN ReprChar(s, q)
    ELSE LET half == Len(s) \div 2
         IN  ReprChars(SubSeq(s, 1, half), q) \o ReprChars(SubSeq(s, half + 1, Len(s)), q)

\* repr(s) of a str of ASCII characters from \x01 to \x7f: in double quotes
\* when s holds ' and no ", in single quotes otherwise.
Repr(s) ==
    LET q == IF Contains(s, "'") /\ ~Contains(s, "\"") THEN "\"" ELSE "'"
    IN  q \o ReprChars(s, q) \o q

Blanks == "                                                                                "

\* ' ' * n
Spaces(n) == SubSeq(Blanks, 1, n)

RECURSIVE JoinWith(_, _)
\* sep.join(parts)
JoinWith(parts, sep) ==
    IF Len(parts) = 0 THEN ""
    ELSE IF Len(parts) = 1 THEN parts[1]
    ELSE parts[1] \o sep \o JoinWith(Tail(parts), sep)

\* The bytes of a file that held old after new was written from its start
\* by a handle of its own: what old had beyond the length of new stays.
Overlay(new, old) == new \o SubSeq(old, Len(new) + 1, Len(old))

(* ----------------------- what the environment sends ---------------------- *)

\* MAC identifiers the device may report.
Macs == {"0050.5699.1234", "aabb.ccdd.eeff"}

RECURSIVE SeqsUpTo(_, _)
\* All sequences over S of length at most n.
SeqsUpTo(S, n) ==
    IF n = 0 THEN {<<>>}
    ELSE LET shorter == SeqsUpTo(S, n - 1)
         IN  shorter \cup {Append(q, x) : q \in {r \in shorter : Len(r) = n - 1}, x \in S}

RECURSIVE InventoryRows(_, _)
InventoryRows(ms, i) ==
    IF i > Len(ms) THEN ""
    ELSE "Gi1/0/" \o Ch(Digits, i + 1) \o " " \o ms[i] \o " mab\n" \o InventoryRows(ms, i + 1)

\* The reply of the device to "show access-session" when it holds the
\* sessions of the MACs ms, one row each.
InventoryText(ms) ==
    "Interface MAC Address Method\n" \o InventoryRows(ms, 1)
        \o "Session count = " \o Ch(Digits, Len(ms) + 1) \o "\n"

InventoryTexts == {InventoryText(ms) : ms \in SeqsUpTo(Macs, MaxMacs)}

\* Replies of the device to "show access-session mac m details": an
\* authorized session, a failed dot1x session with an IP address, a failed
\* mab session whose reply names no MAC, a reply that holds nothing but a
\* failure marker, and a failed mab session with the MAC, the method
\* written MAB for one of the MACs and mab for the other; the status of the
\* first comes behind a colour sequence of the terminal (ESC [ 0 m).
DetailTexts(m) ==
    { "Interface: Gi1/0/1\nMAC Address: " \o m \o "\nStatus:  Authorized\nmab  Authc Success\n",
      IF m = "aabb.ccdd.eeff"
      THEN "MAC Address: " \o m \o "\nStatus:  [0mUnauthorized\nMAB  Authc Failed\n"
      ELSE "Interface: Gi1/0/1\nMAC Address: " \o m
               \o "\nUser-Name: host\nStatus:  Unauthorized\nmab  Authc Failed\n",
      "MAC Address: " \o m
          \o "\nIPv4 Address: 10.0.0.5\nStatus:  Unauthorized\ndot1x  Authc Failed\n",
      "Status:  Unauthorized\nmab  Authc Failed\n",
      "AUTH FAIL\n" }

\* A reply to the detail command for the inventory MAC each, with what the
\* loop body of collect_active_sessions_details computes from it.
DetailReply(text, each) ==
    [text        |-> text,
     marker      |-> HasFailureMarker(text),
     mac_address |-> FindAllMac(text),
     method      |-> FindAllMethod(text),
     details     |-> ParseDetail(text, each)]

DetailReplies == [m \in Macs |-> {DetailReply(t, m) : t \in DetailTexts(m)}]

\* A reply to the inventory command, with what collect_active_sessions
\* computes from it.
InventoryReply(text) ==
    [text          |-> text,
     session_count |-> FindAllCount(text),
     mac_addresses |-> FindAllMac(text)]

InventoryReplies == {InventoryReply(t) : t \in InventoryTexts}

\* Replies of the vendor service: a status with a body, or no reply at all
\* (requests raises a RequestException).  The vendor name is longer than
\* the room pprint has for it on the line of its field.
HttpReplies ==
    { [kind |-> "response", status_code |-> 200,
       text |-> "Shenzhen Jingxun Software Telecommunication Technology Co.,Ltd"],
      [kind |-> "response", status_code |-> 404, text |-> "Not Found"],
      [kind |-> "exception", status_code |-> 0, text |-> ""] }

\* The vendor a reply of the vendor service leaves in dict_session_details.
LookupVendor(http) ==
    IF http.kind = "response" /\ http.status_code = 200 THEN http.text ELSE "Unknown"

(* ------------------------------- pprint --------------------------------- *)

\* PrettyPrinter(width=80, indent=1): the columns of a line, and the
\* columns a nested level is moved to the right.
Width == 80
IndentPerLevel == 1

\* The characters str.splitlines() ends a line at, among the ASCII
\* characters: \n, \r, \x0b, \x0c, \x1c, \x1d and \x1e.
LineBreakChars == {"\n", "\r", "\f", "", "", "", ""}

RECURSIVE SplitLines(_)
\* s.splitlines(True): the lines of s with their line ends, \r\n being one
\* line end.
SplitLines(s) ==
    IF s = "" THEN <<>>
    ELSE LET hits == {i \in 1..Len(s) : Ch(s, i) \in LineBreakChars}
         IN  IF hits = {} THEN <<s>>
             ELSE LET i == First(hits)
                      e == IF Ch(s, i) = "\r" /\ Ch(s, i + 1) = "\n" THEN i + 1 ELSE i
                  IN  <<SubSeq(s, 1, e)>> \o SplitLines(SubSeq(s, e + 1, Len(s)))

\* Number of characters that are no whitespace starting at i.
RECURSIVE NonSpaceRun(_, _)
NonSpaceRun(s, i) ==
    IF i <= Len(s) /\ ~IsSpace(Ch(s, i)) THEN 1 + NonSpaceRun(s, i + 1) ELSE 0

RECURSIVE WrapParts(_, _)
\* re.findall(r'\S*\s*', s) from position i on, without the empty match at
\* the end: each part a word with the whitespace behind it.
WrapParts(s, i) ==
    IF i > Len(s) THEN <<>>
    ELSE LET n == NonSpaceRun(s, i)
             k == SpaceRun(s, i + n)
         IN  <<SubSeq(s, i, i + n + k - 1)>> \o WrapParts(s, i + n + k)

\* repr(current) as the chunk it makes, none for the empty str.
ChunkOf(current) == IF current = "" THEN <<>> ELSE <<Repr(current)>>

RECURSIVE PackParts(_, _, _, _, _)
\* The chunks _pprint_str makes of the parts of a line from part j on,
\* current being what it has gathered: a part is added while the repr of
\* the whole has room in max_width columns (last_width for the last part),
\* else current is closed and the part starts the next chunk.
PackParts(parts, j, current, max_width, last_width) ==
    IF j > Len(parts) THEN ChunkOf(current)
    ELSE LET candidate == current \o parts[j]
             max_width2 == IF j = Len(parts) THEN last_width ELSE max_width
         IN  IF Len(Repr(candidate)) > max_width2
             THEN ChunkOf(current)
                      \o PackParts(parts, j + 1, parts[j], max_width, last_width)
             ELSE PackParts(parts, j + 1, candidate, max_width, last_width)

RECURSIVE LineChunks(_, _, _, _)
\* The chunks of the lines from line i on: the repr of a line that has
\* room, else the packed parts of it; only the last line leaves allowance
\* columns free.
LineChunks(lines, i, max_width, allowance) ==
    IF i > Len(lines) THEN <<>>
    ELSE LET last_width == IF i = Len(lines) THEN max_width - allowance ELSE max_width
             rep == Repr(lines[i])
         IN  (IF Len(rep) <= last_width
              THEN <<rep>>
              ELSE PackParts(WrapParts(lines[i], 1), 1, "", max_width, last_width))
                 \o LineChunks(lines, i + 1, max_width, allowance)

\* PrettyPrinter._pprint_str below the first level: the chunks of the str,
\* one on a line, each in column indent.
PprintStr(object, indent, allowance) ==
    IF object = "" THEN Repr(object)
    ELSE LET lines == SplitLines(object)
             chunks == LineChunks(lines, 1, Width - indent, allowance)
         IN  IF Len(chunks) = 1 THEN Repr(lines[Len(lines)])
             ELSE JoinWith(chunks, "\n" \o Spaces(indent))

\* PrettyPrinter._format of a str value: its repr when that has room on the
\* line, else _pprint_str.
FormatStr(object, indent, allowance) ==
    IF Len(Repr(object)) > Width - indent - allowance
    THEN PprintStr(object, indent, allowance)
    ELSE Repr(object)

\* repr of one record of dict_result as pprint computes it, the keys sorted.
ReprRecord(rec) ==
    LET keys == SortStrings(DOMAIN rec)
    IN  "{" \o JoinWith([i \in 1..Len(keys) |->
                            Repr(keys[i]) \o ": " \o Repr(rec[keys[i]])],
                        ", ")
            \o "}"

\* PrettyPrinter._pprint_dict of one record, its opening brace in column
\* indent: each field on a line of its own, the keys sorted; the last field
\* leaves room for what closes the record and what follows it.
PprintRecord(rec, indent, allowance) ==
    LET keys == SortStrings(DOMAIN rec)
        at == indent + IndentPerLevel
    IN  "{" \o JoinWith([i \in 1..Len(keys) |->
                            Repr(keys[i]) \o ": "
                                \o FormatStr(rec[keys[i]],
                                             at + Len(Repr(keys[i])) + 2,
                                             IF i = Len(keys) THEN allowance + 1 ELSE 1)],
                        ",\n" \o Spaces(at))
            \o "}"

\* What pprint writes for one record of dict_result, its opening brace in
\* column indent: PrettyPrinter._format of the record, which every entry of
\* dict_result calls with an allowance of 1.
PformatRecordOf(rec, indent) ==
    IF Len(ReprRecord(rec)) > Width - indent - 1
    THEN PprintRecord(rec, indent, 1)
    ELSE ReprRecord(rec)

\* The records a turn of the loop can store, and the column at which the
\* record of a MAC key opens.
StoredRecords ==
    UNION { {r.details} \cup {WithVendor(r.details, LookupVendor(h)) : h \in HttpReplies}
            : r \in UNION {DetailReplies[m] : m \in Macs} }

MacIndent == IndentPerLevel + Len(Repr("0050.5699.1234")) + 2

RecordDumps == [rec \in StoredRecords |-> PformatRecordOf(rec, MacIndent)]

RecordLengths == [rec \in StoredRecords |-> Len(ReprRecord(rec))]

PformatRecord(rec, indent) ==
    IF indent = MacIndent /\ rec \in StoredRecords
    THEN RecordDumps[rec]
    ELSE PformatRecordOf(rec, indent)

\* len(repr(rec))
ReprRecordLen(rec) ==
    IF rec \in StoredRecords THEN RecordLengths[rec] ELSE Len(ReprRecord(rec))

RECURSIVE ReprDictLen(_, _)
\* len(repr(d)) of dict_result from entry i on, the closing brace included.
ReprDictLen(d, i) ==
    IF i > Len(d) THEN 1
    ELSE (IF i = 1 THEN 1 ELSE 2) + Len(Repr(d[i].key)) + 2 + ReprRecordLen(d[i].val)
             + ReprDictLen(d, i + 1)

\* repr(d) of dict_result, the keys sorted.
ReprDict(d) ==
    LET sorted == SortByKey(d)
    IN  "{" \o JoinWith([i \in 1..Len(sorted) |->
                            Repr(sorted[i].key) \o ": " \o ReprRecord(sorted[i].val)],
                        ", ")
            \o "}"

\* What pprint.PrettyPrinter(stream=f).pprint(d) writes, a line break at its
\* end: repr(d) when that has room in the 80 columns, as "{}" has, else one
\* entry after the other with the keys sorted, each record behind its key.
Pformat(d) ==
    IF (IF Len(d) = 0 THEN 2 ELSE ReprDictLen(d, 1)) <= Width
    THEN ReprDict(d) \o "\n"
    ELSE LET sorted == SortByKey(d)
         IN  "{" \o JoinWith([i \in 1..Len(sorted) |->
                                 Repr(sorted[i].key) \o ": "
                                     \o PformatRecord(sorted[i].val,
                                            IndentPerLevel + Len(Repr(sorted[i].key)) + 2)],
                             ",\n" \o Spaces(IndentPerLevel))
                 \o "}\n"

(* -------------------------------- state ---------------------------------- *)

VARIABLES
    pc,             \* per worker: where main() stands: "idle", "open",
                    \*   "enable", "paging", "inventory", "details",
                    \*   "lookup", "sleep", "save", "write", "return",
                    \*   "done" or "raised"
    connection,     \* per worker: Device.connection is a handle (TRUE) or None
    channel,        \* per worker: the SSH channel ConnectHandler set up:
                    \*   "none", "open" or "closed"
    session_count,  \* per worker: Device.session_count
    mac_addresses,  \* per worker: Device.mac_addresses
    pos,            \* per worker: index in mac_addresses of the loop of
                    \*   collect_active_sessions_details
    dict_result,    \* per worker: Device.dict_result
    log,            \* per worker: the calls made to the device, the vendor
                    \*   service, time.sleep and the file, in order
    replies,        \* per worker: the replies to the detail commands so far
    outcome,        \* per worker: how main() ended
    snapshot,       \* the file static/result.json: whether it exists and
                    \*   the text it holds
    call,           \* a call of a function of the repository on its own:
                    \*   its arguments and, once it has run, what it gave
    ise             \* get_group_id(): the ISE server's pages and where the
                    \*   loop stands

vars == <<pc, connection, channel, session_count, mac_addresses, pos,
          dict_result, log, replies, outcome, snapshot, call, ise>>

\* What a collection run leaves alone.
libVars == <<call, ise>>

\* No function is being called on its own.
NoCall == [fn |-> "none"]

\* get_group_id() is not running.
IseIdle == [pc |-> "idle"]

NoOutcome == [kind |-> "running"]
Raised(exc) == [kind |-> "raised", exc |-> exc]
Returned(d) == [kind |-> "returned", value |-> d]

NoFile == [exists |-> FALSE, content |-> ""]
File(d) == [exists |-> TRUE, content |-> d]

\* The calls a run makes.
Connect == [op |-> "connect", arg |-> ""]
Enable == [op |-> "enable", arg |-> ""]
Send(cmd) == [op |-> "send_command", arg |-> cmd]
Get(url) == [op |-> "get", arg |-> url]
Sleep == [op |-> "sleep", arg |-> "1"]
Disconnect == [op |-> "disconnect", arg |-> ""]
Open == [op |-> "open", arg |-> "static/result.json"]
Write == [op |-> "write", arg |-> "static/result.json"]

PaginationCommand == "term len 0"
InventoryCommand == "show access-session"
DetailCommand(m) == "show access-session mac " \o m \o " details"
VendorUrl(m) == "https://api.macvendors.com/" \o m

\* What static/result.json may hold before the first run: nothing, or the
\* dump of an earlier run.
PriorSnapshots ==
    { NoFile,
      File(Pformat(<<[key |-> "aabb.ccdd.eeff",
                      val |-> ParseDetail("AUTH FAIL\n", "aabb.ccdd.eeff")]>>)) }

Init ==
    /\ pc = [w \in Workers |-> "idle"]
    /\ connection = [w \in Workers |-> FALSE]
    /\ channel = [w \in Workers |-> "none"]
    /\ session_count = [w \in Workers |-> <<>>]
    /\ mac_addresses = [w \in Workers |-> <<>>]
    /\ pos = [w \in Workers |-> 1]
    /\ dict_result = [w \in Workers |-> EmptyDict]
    /\ log = [w \in Workers |-> <<>>]
    /\ replies = [w \in Workers |-> <<>>]
    /\ outcome = [w \in Workers |-> NoOutcome]
    /\ snapshot \in PriorSnapshots
    /\ call = NoCall
    /\ ise = IseIdle

\* An exception leaves main(): nothing below the raising line runs.
Raise(w, exc) ==
    /\ pc' = [pc EXCEPT ![w] = "raised"]
    /\ outcome' = [outcome EXCEPT ![w] = Raised(exc)]

(* ------------------------------- actions --------------------------------- *)

\* main() is entered: device = Device(current_ip_address).
Main(w) ==
    /\ pc[w] = "idle"
    /\ pc' = [pc EXCEPT ![w] = "open"]
    /\ dict_result' = [dict_result EXCEPT ![w] = EmptyDict]
    /\ connection' = [connection EXCEPT ![w] = FALSE]
    /\ session_count' = [session_count EXCEPT ![w] = <<>>]
    /\ mac_addresses' = [mac_addresses EXCEPT ![w] = <<>>]
    /\ UNCHANGED <<channel, pos, log, replies, outcome, snapshot>>
    /\ UNCHANGED libVars

\* InitConnectionRefused with the check of self.connection forgotten: the
\* run goes on without a handle.
M_InitConnectionRefusedNoRaise(w) ==
    /\ pc[w] = "open"
    /\ log' = [log EXCEPT ![w] = Append(@, Connect)]
    /\ connection' = [connection EXCEPT ![w] = FALSE]
    /\ pc' = [pc EXCEPT ![w] = "paging"]
    /\ UNCHANGED <<channel, session_count, mac_addresses, pos, dict_result,
                   replies, outcome, snapshot>>
    /\ UNCHANGED libVars

\* device.init_connection_ssh(), ConnectHandler(...) raising: one of the
\* except clauses of try_to_connect_ssh returns None, no channel exists.
InitConnectionRefused(w) ==
    /\ pc[w] = "open"
    /\ log' = [log EXCEPT ![w] = Append(@, Connect)]
    /\ connection' = [connection EXCEPT ![w] = FALSE]
    /\ Raise(w, "ConnectionError")
    /\ UNCHANGED <<channel, session_count, mac_addresses, pos, dict_result,
                   replies, snapshot>>
    /\ UNCHANGED libVars

\* try_to_connect_ssh, netmiko.ConnectHandler(...) returning a handle: the
\* channel is set up, self.connection is not assigned yet.
ConnectHandler(w) ==
    /\ pc[w] = "open"
    /\ log' = [log EXCEPT ![w] = Append(@, Connect)]
    /\ channel' = [channel EXCEPT ![w] = "open"]
    /\ pc' = [pc EXCEPT ![w] = "enable"]
    /\ UNCHANGED <<connection, session_count, mac_addresses, pos, dict_result,
                   replies, outcome, snapshot>>
    /\ UNCHANGED libVars

\* connection.enable() raising: except Exception returns None, and
\* init_connection_ssh raises ConnectionError.
InitConnectionEnableFails(w) ==
    /\ pc[w] = "enable"
    /\ log' = [log EXCEPT ![w] = Append(@, Enable)]
    /\ connection' = [connection EXCEPT ![w] = FALSE]
    /\ Raise(w, "ConnectionError")
    /\ UNCHANGED <<channel, session_count, mac_addresses, pos, dict_result,
                   replies, snapshot>>
    /\ UNCHANGED libVars

\* connection.enable() returning: device.init_connection_ssh() succeeds.
InitConnection(w) ==
    /\ pc[w] = "enable"
    /\ log' = [log EXCEPT ![w] = Append(@, Enable)]
    /\ connection' = [connection EXCEPT ![w] = TRUE]
    /\ pc' = [pc EXCEPT ![w] = "paging"]
    /\ UNCHANGED <<channel, session_count, mac_addresses, pos, dict_result,
                   replies, outcome, snapshot>>
    /\ UNCHANGED libVars

\* collect_active_sessions(), send_command("term len 0"); ok = FALSE when
\* send_command raises.
DisablePaging(w) ==
    /\ pc[w] = "paging"
    /\ connection[w]
    /\ log' = [log EXCEPT ![w] = Append(@, Send(PaginationCommand))]
    /\ \E ok \in BOOLEAN :
          IF ok
          THEN pc' = [pc EXCEPT ![w] = "inventory"] /\ UNCHANGED outcome
          ELSE Raise(w, "CommandError")
    /\ UNCHANGED <<connection, channel, session_count, mac_addresses, pos,
                   dict_result, replies, snapshot>>
    /\ UNCHANGED libVars

\* collect_active_sessions(), send_command("show access-session") raising.
InventoryFails(w) ==
    /\ pc[w] = "inventory"
    /\ log' = [log EXCEPT ![w] = Append(@, Send(InventoryCommand))]
    /\ Raise(w, "CommandError")
    /\ UNCHANGED <<connection, channel, session_count, mac_addresses, pos,
                   dict_result, replies, snapshot>>
    /\ UNCHANGED libVars

\* collect_active_sessions(), send_command("show access-session") and the
\* two re.findall on its reply.
InventoryFrom(w, inventories) ==
    /\ pc[w] = "inventory"
    /\ log' = [log EXCEPT ![w] = Append(@, Send(InventoryCommand))]
    /\ \E active_sessions \in inventories :
          /\ session_count' = [session_count EXCEPT ![w] = active_sessions.session_count]
          /\ mac_addresses' = [mac_addresses EXCEPT ![w] = active_sessions.mac_addresses]
    /\ pos' = [pos EXCEPT ![w] = 1]
    /\ pc' = [pc EXCEPT ![w] = "details"]
    /\ UNCHANGED <<connection, channel, dict_result, replies, outcome, snapshot>>
    /\ UNCHANGED libVars

Inventory(w) == InventoryFrom(w, InventoryReplies)

\* Each with the list walked from its end.
M_EachReversed(w) == mac_addresses[w][Len(mac_addresses[w]) - pos[w] + 1]

\* The MAC the loop of collect_active_sessions_details stands at.
Each(w) == mac_addresses[w][pos[w]]

InLoop(w) == pc[w] = "details" /\ connection[w] /\ pos[w] <= Len(mac_addresses[w])

\* The reply to a detail command together with the reply the vendor service
\* gave in the same turn of the loop.
WithHttp(session_details, http) ==
    [k \in DOMAIN session_details \cup {"http"} |->
        IF k = "http" THEN http ELSE session_details[k]]

\* DetailFails with the file written on the way out, as a finally clause
\* around the loop would.
M_DetailFailsSavesPartial(w) ==
    /\ pc[w] = "details" /\ connection[w] /\ pos[w] <= Len(mac_addresses[w])
    /\ log' = [log EXCEPT ![w] = Append(@, Send(DetailCommand(mac_addresses[w][pos[w]])))]
    /\ snapshot' = File(Pformat(dict_result[w]))
    /\ Raise(w, "CommandError")
    /\ UNCHANGED <<connection, channel, session_count, mac_addresses, pos,
                   dict_result, replies>>
    /\ UNCHANGED libVars

\* One turn of the loop, send_command raising.
DetailFails(w) ==
    /\ InLoop(w)
    /\ log' = [log EXCEPT ![w] = Append(@, Send(DetailCommand(Each(w))))]
    /\ Raise(w, "CommandError")
    /\ UNCHANGED <<connection, channel, session_count, mac_addresses, pos,
                   dict_result, replies, snapshot>>
    /\ UNCHANGED libVars

\* One turn of the loop for a reply without a failure marker: nothing is kept.
DetailClean(w) ==
    /\ InLoop(w)
    /\ \E session_details \in DetailReplies[Each(w)] :
          /\ ~session_details.marker
          /\ replies' = [replies EXCEPT ![w] = Append(@, session_details)]
    /\ log' = [log EXCEPT ![w] = Append(@, Send(DetailCommand(Each(w))))]
    /\ pos' = [pos EXCEPT ![w] = @ + 1]
    /\ UNCHANGED <<pc, connection, channel, session_count, mac_addresses,
                   dict_result, outcome, snapshot>>
    /\ UNCHANGED libVars

\* One turn of the loop for a failing session whose method is not mab: the
\* record is stored under the inventory MAC, without a vendor.
DetailFailing(w) ==
    /\ InLoop(w)
    /\ \E session_details \in DetailReplies[Each(w)] :
          /\ session_details.marker
          /\ ~IsMab(session_details.method)
          /\ replies' = [replies EXCEPT ![w] = Append(@, session_details)]
          /\ dict_result' = [dict_result EXCEPT ![w] =
                DictSet(@, Each(w), session_details.details)]
    /\ log' = [log EXCEPT ![w] = Append(@, Send(DetailCommand(Each(w))))]
    /\ pos' = [pos EXCEPT ![w] = @ + 1]
    /\ UNCHANGED <<pc, connection, channel, session_count, mac_addresses,
                   outcome, snapshot>>
    /\ UNCHANGED libVars

\* One turn of the loop for a failing mab session whose reply holds a MAC,
\* up to the call of the vendor service: send_command has returned and the
\* reply is parsed.
DetailMab(w) ==
    /\ InLoop(w)
    /\ \E session_details \in DetailReplies[Each(w)] :
          /\ session_details.marker
          /\ IsMab(session_details.method)
          /\ Len(session_details.mac_address) > 0
          /\ replies' = [replies EXCEPT ![w] = Append(@, session_details)]
    /\ log' = [log EXCEPT ![w] = Append(@, Send(DetailCommand(Each(w))))]
    /\ pc' = [pc EXCEPT ![w] = "lookup"]
    /\ UNCHANGED <<connection, channel, session_count, mac_addresses, pos,
                   dict_result, outcome, snapshot>>
    /\ UNCHANGED libVars

\* The reply of the turn the loop stands in.
LastReply(w) == replies[w][Len(replies[w])]

\* requests.get(url, timeout=5) returning a response about mac_address[0]:
\* the vendor is put into dict_session_details, time.sleep(1) is next.
LookupResponds(w) ==
    /\ pc[w] = "lookup"
    /\ \E http \in HttpReplies :
          /\ http.kind = "response"
          /\ replies' = [replies EXCEPT ![w][Len(replies[w])] = WithHttp(@, http)]
    /\ log' = [log EXCEPT ![w] = Append(@, Get(VendorUrl(LastReply(w).mac_address[1])))]
    /\ pc' = [pc EXCEPT ![w] = "sleep"]
    /\ UNCHANGED <<connection, channel, session_count, mac_addresses, pos,
                   dict_result, outcome, snapshot>>
    /\ UNCHANGED libVars

\* requests.get raising a RequestException: the except clause sets the
\* vendor "Unknown", the record is stored and the turn is over, without a
\* sleep.
LookupRaises(w) ==
    /\ pc[w] = "lookup"
    /\ \E http \in HttpReplies :
          /\ http.kind = "exception"
          /\ replies' = [replies EXCEPT ![w][Len(replies[w])] = WithHttp(@, http)]
          /\ dict_result' = [dict_result EXCEPT ![w] =
                DictSet(@, Each(w), WithVendor(LastReply(w).details, LookupVendor(http)))]
    /\ log' = [log EXCEPT ![w] = Append(@, Get(VendorUrl(LastReply(w).mac_address[1])))]
    /\ pos' = [pos EXCEPT ![w] = @ + 1]
    /\ pc' = [pc EXCEPT ![w] = "details"]
    /\ UNCHANGED <<connection, channel, session_count, mac_addresses,
                   outcome, snapshot>>
    /\ UNCHANGED libVars

\* time.sleep(1) after a response, then self.dict_result[each] = ...: the
\* turn is over.
SleepAndStore(w) ==
    /\ pc[w] = "sleep"
    /\ log' = [log EXCEPT ![w] = Append(@, Sleep)]
    /\ dict_result' = [dict_result EXCEPT ![w] =
          DictSet(@, Each(w),
                  WithVendor(LastReply(w).details, LookupVendor(LastReply(w).http)))]
    /\ pos' = [pos EXCEPT ![w] = @ + 1]
    /\ pc' = [pc EXCEPT ![w] = "details"]
    /\ UNCHANGED <<connection, channel, session_count, mac_addresses,
                   replies, outcome, snapshot>>
    /\ UNCHANGED libVars

\* One turn of the loop for a failing mab session whose reply holds no MAC:
\* mac_address[0] raises IndexError inside the try, which catches only
\* RequestException.
DetailMabNoMac(w) ==
    /\ InLoop(w)
    /\ \E session_details \in DetailReplies[Each(w)] :
          /\ session_details.marker
          /\ IsMab(session_details.method)
          /\ Len(session_details.mac_address) = 0
          /\ replies' = [replies EXCEPT ![w] = Append(@, session_details)]
    /\ log' = [log EXCEPT ![w] = Append(@, Send(DetailCommand(Each(w))))]
    /\ Raise(w, "IndexError")
    /\ UNCHANGED <<connection, channel, session_count, mac_addresses, pos,
                   dict_result, snapshot>>
    /\ UNCHANGED libVars

\* The loop is over: dict_result = device.get_result() and
\* device.close_connection().
CloseConnection(w) ==
    /\ pc[w] = "details"
    /\ connection[w]
    /\ pos[w] > Len(mac_addresses[w])
    /\ log' = [log EXCEPT ![w] = Append(@, Disconnect)]
    /\ channel' = [channel EXCEPT ![w] = "closed"]
    /\ pc' = [pc EXCEPT ![w] = "save"]
    /\ UNCHANGED <<connection, session_count, mac_addresses, pos, dict_result,
                   replies, outcome, snapshot>>
    /\ UNCHANGED libVars

\* OpenResult with the mode "r+": the file is not emptied.
M_OpenResultNoTruncate(w) ==
    /\ pc[w] = "save"
    /\ log' = [log EXCEPT ![w] = Append(@, Open)]
    /\ snapshot' = File(snapshot.content)
    /\ pc' = [pc EXCEPT ![w] = "write"]
    /\ UNCHANGED <<connection, channel, session_count, mac_addresses, pos,
                   dict_result, replies, outcome>>
    /\ UNCHANGED libVars

\* open("static/result.json", "w", encoding="utf-8"): the file is created
\* or emptied, and the run holds a handle of its own that stands at the
\* start of the file.
OpenResult(w) ==
    /\ pc[w] = "save"
    /\ log' = [log EXCEPT ![w] = Append(@, Open)]
    /\ snapshot' = File("")
    /\ pc' = [pc EXCEPT ![w] = "write"]
    /\ UNCHANGED <<connection, channel, session_count, mac_addresses, pos,
                   dict_result, replies, outcome>>
    /\ UNCHANGED libVars

\* pprint(dict_result) into the buffer of f and the end of the with block:
\* the dump, which is shorter than the buffer, is written in one piece from
\* the start of the file, over whatever the file holds by then.
SaveResult(w) ==
    /\ pc[w] = "write"
    /\ log' = [log EXCEPT ![w] = Append(@, Write)]
    /\ snapshot' = File(Overlay(Pformat(dict_result[w]), snapshot.content))
    /\ pc' = [pc EXCEPT ![w] = "return"]
    /\ UNCHANGED <<connection, channel, session_count, mac_addresses, pos,
                   dict_result, replies, outcome>>
    /\ UNCHANGED libVars

\* return dict_result
Return(w) ==
    /\ pc[w] = "return"
    /\ outcome' = [outcome EXCEPT ![w] = Returned(dict_result[w])]
    /\ pc' = [pc EXCEPT ![w] = "done"]
    /\ UNCHANGED <<connection, channel, session_count, mac_addresses, pos,
                   dict_result, log, replies, snapshot>>
    /\ UNCHANGED libVars

Next ==
    \E w \in Workers :
        \/ Main(w)
        \/ InitConnectionRefused(w)
        \/ ConnectHandler(w)
        \/ InitConnectionEnableFails(w)
        \/ InitConnection(w)
        \/ DisablePaging(w)
        \/ InventoryFails(w)
        \/ Inventory(w)
        \/ DetailFails(w)
        \/ DetailClean(w)
        \/ DetailFailing(w)
        \/ DetailMab(w)
        \/ LookupResponds(w)
        \/ LookupRaises(w)
        \/ SleepAndStore(w)
        \/ DetailMabNoMac(w)
        \/ CloseConnection(w)
        \/ OpenResult(w)
        \/ SaveResult(w)
        \/ Return(w)

Spec == Init /\ [][Next]_vars

(* ------------- functions of the repository called on their own ----------- *)

\* All concatenations of one element of each set of a sequence of sets of
\* strings, in the order of the sequence.
RECURSIVE Concatenations(_)
Concatenations(parts) ==
    IF Len(parts) = 0 THEN {""}
    ELSE {a \o b : a \in Head(parts), b \in Concatenations(Tail(parts))}

\* Replies to the detail command that hold a failure marker, made of the
\* lines a reply may or may not have, in the spellings a device may use.
ParseTexts ==
    Concatenations(<<
        {"", "Interface: Gi1/0/1\n"},
        {"", "MAC Address: 0050.5699.1234\n"},
        {"", "IPv4 Address: 10.0.0.5\n"},
        {"", "User-Name: host\n", "User-Name:  host\n", "User-Name:\n",
         "User-Name:host\n"},
        {"AUTH FAIL\n", "Status:  Unauthorized\n", "Status: Unauthorized\n"},
        {"", "mab  Authc Failed\n", "webauth  Authc Failed\n", "ab Authc Failed\n",
         "mabAuthcFailed\n"} >>)

ParseCalls ==
    {[fn |-> "parse_detail", text |-> t, each |-> "aabb.ccdd.eeff", done |-> FALSE]
        : t \in ParseTexts}

\* The state in which no collection run and no get_group_id() is under way.
InitWorkers(W) ==
    /\ pc = [w \in W |-> "idle"]
    /\ connection = [w \in W |-> FALSE]
    /\ channel = [w \in W |-> "none"]
    /\ session_count = [w \in W |-> <<>>]
    /\ mac_addresses = [w \in W |-> <<>>]
    /\ pos = [w \in W |-> 1]
    /\ dict_result = [w \in W |-> EmptyDict]
    /\ log = [w \in W |-> <<>>]
    /\ replies = [w \in W |-> <<>>]
    /\ outcome = [w \in W |-> NoOutcome]

runVars == <<pc, connection, channel, session_count, mac_addresses, pos,
             dict_result, log, replies, outcome, snapshot>>

\* The body of "if "FAIL" in session_details or ..." up to the method field,
\* on one reply text.
ParseDetailCall ==
    /\ call.fn = "parse_detail"
    /\ ~call.done
    /\ HasFailureMarker(call.text)
    /\ call' = [fn |-> call.fn, text |-> call.text, each |-> call.each,
                done |-> TRUE, out |-> ParseDetail(call.text, call.each)]
    /\ UNCHANGED <<runVars, ise>>

\* re.sub(r"\W+", "", s): the word characters of s, in order.
RECURSIVE StripNonWord(_)
StripNonWord(s) ==
    IF s = "" THEN ""
    ELSE (IF IsWord(Head(s)) THEN Head(s) ELSE "") \o StripNonWord(Tail(s))

\* mac_normalization(current_mac_address, symbol) of ise_api.py: the length
\* of the stripped string is all that is looked at.
MacNormalization(current_mac_address, symbol) ==
    LET stripped == StripNonWord(current_mac_address)
    IN  IF Len(stripped) = 12
        THEN SubSeq(stripped, 1, 4) \o symbol \o SubSeq(stripped, 5, 8)
                 \o symbol \o SubSeq(stripped, 9, 12)
        ELSE "Error"

\* MAC addresses as an operator may type them: well formed in several
\* delimiter styles, too short, too long, and with characters that are no
\* hexadecimal digits.
MacInputs ==
    {"AA:BB:CC:DD:EE:FF", "aabb.ccdd.eeff", "invalid", ""}
        \cup Concatenations(<<
                {"AA", "0a", "GG", "z_"},
                {":", "-", ""},
                {"BB:CC:DD:EE", "bbcc.ddee", "BB-CC-DD-E"},
                {":FF", "ff", ":F", ":FFF", ""} >>)

Symbols == {".", ":", "-"}

MacCalls ==
    {[fn |-> "mac_normalization", mac |-> m, symbol |-> y, done |-> FALSE]
        : m \in MacInputs, y \in Symbols}

\* normalized_mac = ise_api.mac_normalization(mac, symbol)
MacNormalizationCall ==
    /\ call.fn = "mac_normalization"
    /\ ~call.done
    /\ call' = [fn |-> call.fn, mac |-> call.mac, symbol |-> call.symbol,
                done |-> TRUE, out |-> MacNormalization(call.mac, call.symbol)]
    /\ UNCHANGED <<runVars, ise>>

InitCalls ==
    /\ InitWorkers(Workers)
    /\ snapshot = NoFile
    /\ ise = IseIdle
    /\ call \in ParseCalls \cup MacCalls

NextCalls == ParseDetailCall \/ MacNormalizationCall

\* One call of the parsing of a reply or of mac_normalization, on every
\* input of ParseTexts and MacInputs.
SpecCalls == InitCalls /\ [][NextCalls]_vars

(* ----------------------- one run after the other ------------------------- *)

MaxRuns == 3

\* The runs in the order in which /check-result is asked for them.
Runs == 1..MaxRuns

\* A switch with no session and a switch with one session, whose MAC is not
\* the one of PriorSnapshots, so that a chain of MaxRuns runs stays small.
RunInventoryReplies ==
    {InventoryReply(InventoryText(ms)) : ms \in {<<>>, <<"0050.5699.1234">>}}

RunInventory(w) == InventoryFrom(w, RunInventoryReplies)

\* main() of run w is entered or goes on only when the runs before it are
\* over.
RunTurn(w) == \A v \in DOMAIN pc : v < w => pc[v] \in {"done", "raised"}

InitRuns ==
    /\ InitWorkers(Runs)
    /\ snapshot \in PriorSnapshots
    /\ call = NoCall
    /\ ise = IseIdle

NextRuns ==
    \E w \in Runs :
        \/ RunTurn(w) /\ Main(w)
        \/ RunTurn(w) /\ InitConnectionRefused(w)
        \/ RunTurn(w) /\ ConnectHandler(w)
        \/ RunTurn(w) /\ InitConnectionEnableFails(w)
        \/ RunTurn(w) /\ InitConnection(w)
        \/ RunTurn(w) /\ DisablePaging(w)
        \/ RunTurn(w) /\ InventoryFails(w)
        \/ RunTurn(w) /\ RunInventory(w)
        \/ RunTurn(w) /\ DetailFails(w)
        \/ RunTurn(w) /\ DetailClean(w)
        \/ RunTurn(w) /\ DetailFailing(w)
        \/ RunTurn(w) /\ DetailMab(w)
        \/ RunTurn(w) /\ LookupResponds(w)
        \/ RunTurn(w) /\ LookupRaises(w)
        \/ RunTurn(w) /\ SleepAndStore(w)
        \/ RunTurn(w) /\ DetailMabNoMac(w)
        \/ RunTurn(w) /\ CloseConnection(w)
        \/ RunTurn(w) /\ OpenResult(w)
        \/ RunTurn(w) /\ SaveResult(w)
        \/ RunTurn(w) /\ Return(w)

\* MaxRuns calls of main(), each begun after the one before has returned or
\* raised.
SpecRuns == InitRuns /\ [][NextRuns]_vars

(* ----------------------- two runs at the same time ----------------------- *)

\* Two /check-result requests served by two threads of the web server.
ConcurrentRuns == {"w1", "w2"}

InitConcurrent ==
    /\ InitWorkers(ConcurrentRuns)
    /\ snapshot \in PriorSnapshots
    /\ call = NoCall
    /\ ise = IseIdle

NextConcurrent ==
    \E w \in ConcurrentRuns :
        \/ Main(w)
        \/ InitConnectionRefused(w)
        \/ ConnectHandler(w)
        \/ InitConnectionEnableFails(w)
        \/ InitConnection(w)
        \/ DisablePaging(w)
        \/ InventoryFails(w)
        \/ RunInventory(w)
        \/ DetailFails(w)
        \/ DetailClean(w)
        \/ DetailFailing(w)
        \/ DetailMab(w)
        \/ LookupResponds(w)
        \/ LookupRaises(w)
        \/ SleepAndStore(w)
        \/ DetailMabNoMac(w)
        \/ CloseConnection(w)
        \/ OpenResult(w)
        \/ SaveResult(w)
        \/ Return(w)

\* Two calls of main() whose steps interleave in any order.
SpecConcurrent == InitConcurrent /\ [][NextConcurrent]_vars

(* ------------------------ get_group_id of ise_api.py --------------------- *)

MaxPages == 3

\* Endpoint groups as ISE lists them; the second and the third have the
\* same id.
IseGroups ==
    { [id |-> "aa0e8b20", name |-> "Blacklist"],
      [id |-> "aa13bb40", name |-> "GuestEndpoints"],
      [id |-> "aa13bb40", name |-> "Guests"] }

\* data["SearchResult"]["resources"] of one page.
ResourceLists ==
    { <<>> } \cup { <<g>> : g \in IseGroups }
        \cup { <<[id |-> "aa0e8b20", name |-> "Blacklist"],
                 [id |-> "aa13bb40", name |-> "GuestEndpoints"]>> }

\* How the last page says that it is the last: the element nextPage is not
\* in the reply, or it is there with an empty href.
LastPageStyles == {"absent", "empty"}

\* The finite chains of pages the server may hold: page i links to page
\* i + 1, the last page ends the chain in one of the LastPageStyles.
PageChains ==
    UNION { { [i \in 1..n |->
                 [resources |-> rs[i],
                  nextPage  |-> IF i < n THEN "href" ELSE last]]
              : rs \in [1..n -> ResourceLists], last \in LastPageStyles }
            : n \in 1..MaxPages }

RECURSIVE Update(_, _)
\* for each in resources: ise_groups[each["id"]] = each["name"]
Update(ise_groups, resources) ==
    IF Len(resources) = 0 THEN ise_groups
    ELSE Update(DictSet(ise_groups, Head(resources).id, Head(resources).name),
                Tail(resources))

\* get_group_id() is entered: url, payload and ise_groups are set.
GetGroupId ==
    /\ ise.pc = "ready"
    /\ ise' = [pc |-> "loop", pages |-> ise.pages, url |-> 1,
               ise_groups |-> EmptyDict, requests |-> 0]
    /\ UNCHANGED <<runVars, snapshot, call>>

\* One turn of the loop, response.raise_for_status() raising.
RequestFails ==
    /\ ise.pc = "loop"
    /\ ise' = [ise EXCEPT !.pc = "raised", !.requests = @ + 1] @@ [exc |-> "HTTPError"]
    /\ UNCHANGED <<runVars, snapshot, call>>

\* One turn of the loop on a page that links to the next one: continue.
NextPageHref ==
    /\ ise.pc = "loop"
    /\ ise.pages[ise.url].nextPage = "href"
    /\ ise' = [ise EXCEPT !.requests = @ + 1,
                          !.ise_groups = Update(@, ise.pages[ise.url].resources),
                          !.url = @ + 1]
    /\ UNCHANGED <<runVars, snapshot, call>>

\* One turn of the loop on a page whose nextPage has an empty href: break
\* and return ise_groups.
NextPageEmpty ==
    /\ ise.pc = "loop"
    /\ ise.pages[ise.url].nextPage = "empty"
    /\ ise' = [ise EXCEPT !.pc = "returned", !.requests = @ + 1,
                          !.ise_groups = Update(@, ise.pages[ise.url].resources)]
                 @@ [out |-> Update(ise.ise_groups, ise.pages[ise.url].resources)]
    /\ UNCHANGED <<runVars, snapshot, call>>

\* One turn of the loop on a page without the element nextPage:
\* data["SearchResult"]["nextPage"] raises KeyError after the groups of the
\* page were stored, and nothing is returned.
NextPageAbsent ==
    /\ ise.pc = "loop"
    /\ ise.pages[ise.url].nextPage = "absent"
    /\ ise' = [ise EXCEPT !.pc = "raised", !.requests = @ + 1,
                          !.ise_groups = Update(@, ise.pages[ise.url].resources)]
                 @@ [exc |-> "KeyError"]
    /\ UNCHANGED <<runVars, snapshot, call>>

InitGroups ==
    /\ InitWorkers(Workers)
    /\ snapshot = NoFile
    /\ call = NoCall
    /\ ise \in {[pc |-> "ready", pages |-> pages] : pages \in PageChains}

NextGroups ==
    \/ GetGroupId
    \/ RequestFails
    \/ NextPageHref
    \/ NextPageEmpty
    \/ NextPageAbsent

\* One call of get_group_id() against every chain of PageChains.
SpecGroups == InitGroups /\ [][NextGroups]_vars

(* ------------------------- vocabulary of the claims ---------------------- *)

IsSend(e) == e.op = "send_command"
IsGet(e) == e.op = "get"
IsDeviceOrLookup(e) == e.op \in {"send_command", "get"}

Ended(w) == pc[w] \in {"done", "raised"}

\* The replies that hold a failure marker, read off the reply texts
\* themselves.
MarkedTexts ==
    {t \in UNION {DetailTexts(m) : m \in Macs} :
        Contains(t, "FAIL") \/ Contains(t, "Unauthorized")}

TextMarked(text) == text \in MarkedTexts

\* The turns of the loop that ran to their end.
TurnsDone(w) == 1..(pos[w] - 1)

KeySet(d) == {d[i].key : i \in 1..Len(d)}

IndexOfKey(d, k) == CHOOSE i \in 1..Len(d) : d[i].key = k

\* First turn of the loop at which MAC m was queried.
FirstOccurrence(w, m) ==
    CHOOSE i \in 1..Len(mac_addresses[w]) :
        /\ mac_addresses[w][i] = m
        /\ \A j \in 1..(i - 1) : mac_addresses[w][j] # m

(* --------------------------------- C1 ------------------------------------ *)

\* C1: a run that opened the handle has called disconnect on it by the time
\* it ends, whether it ends by returning or by an exception of a device
\* command or of a step of the per-MAC loop.
C1_OpenedHandleClosedAtEnd ==
    \A w \in Workers :
        (Ended(w) /\ connection[w]) => channel[w] = "closed"

(* --------------------------------- C2 ------------------------------------ *)

\* C2: when opening the handle fails, the run ends with ConnectionError and
\* has sent no device command and asked the vendor service nothing.
C2_FailedOpenIssuesNothing ==
    \A w \in Workers :
        (pc[w] \notin {"idle", "open", "enable"} /\ ~connection[w]) =>
            /\ pc[w] = "raised"
            /\ outcome[w] = Raised("ConnectionError")
            /\ \A i \in 1..Len(log[w]) : ~IsDeviceOrLookup(log[w][i])

\* A run whose login succeeded and whose enable failed has ended.
C2_Witness ==
    \E w \in Workers :
        /\ pc[w] = "raised"
        /\ ~connection[w]
        /\ log[w] = <<Connect, Enable>>

(* --------------------------------- C3 ------------------------------------ *)

\* C3: a run that ended by a failed open leaves no established channel open:
\* the channel set up before enable failed has been disconnected.
C3_NoChannelLeftOpenAfterFailedOpen ==
    \A w \in Workers :
        (pc[w] = "raised" /\ outcome[w] = Raised("ConnectionError")) =>
            channel[w] # "open"

(* --------------------------------- C4 ------------------------------------ *)

\* C4: the call that follows a vendor lookup is never a device command or
\* another lookup: the one-second sleep stands between them, whatever the
\* lookup's outcome.
C4_PauseAfterEveryLookup ==
    \A w \in Workers :
        \A i \in 1..(Len(log[w]) - 1) :
            IsGet(log[w][i]) => ~IsDeviceOrLookup(log[w][i + 1])

(* --------------------------------- C5 ------------------------------------ *)

\* C5: the turn of the loop that receives a reply with a failure marker
\* and a method that is mab in any case, with or without a MAC in its text,
\* does not raise: it leaves an entry whose vendor is the body of a 200
\* response or "Unknown", and the loop goes on to the next MAC.
C5_EnrichmentNeverRaises ==
    [][\A w \in Workers :
          /\ (/\ Len(replies'[w]) = Len(replies[w]) + 1
              /\ replies'[w][Len(replies'[w])].marker
              /\ IsMab(replies'[w][Len(replies'[w])].method)) =>
                 pc'[w] = "lookup"
          /\ (pc[w] \in {"lookup", "sleep"} /\ pc'[w] # pc[w]) =>
                 /\ pc'[w] \in {"sleep", "details"}
                 /\ pc'[w] = "details" =>
                       /\ pos'[w] = pos[w] + 1
                       /\ DictHas(dict_result'[w], Each(w))
                       /\ "vendor" \in DOMAIN DictGet(dict_result'[w], Each(w))
                       /\ DictGet(dict_result'[w], Each(w)).vendor
                              \in {"Unknown"} \cup {h.text : h \in HttpReplies}]_vars

(* --------------------------------- C6 ------------------------------------ *)

\* C6: the keys of the result a run returns are exactly the inventory MACs
\* for which a reply to the detail command held "FAIL" or "Unauthorized".
C6_KeysAreTheMarkedMacs ==
    \A w \in Workers :
        outcome[w].kind = "returned" =>
            KeySet(outcome[w].value) =
                {mac_addresses[w][i] : i \in {j \in 1..Len(replies[w]) :
                                                 TextMarked(replies[w][j].text)}}

\* A run over three MAC rows of which exactly one had a marked reply has
\* returned one entry, and a run with no marked reply has returned none.
C6_Witness ==
    \E w \in Workers :
        /\ outcome[w].kind = "returned"
        /\ Len(mac_addresses[w]) = 3
        /\ Cardinality({j \in 1..3 : replies[w][j].marker}) = 1
        /\ Len(outcome[w].value) = 1

(* --------------------------------- C7 ------------------------------------ *)

\* The device commands of a run over the MAC list ms, in order.
ExpectedCommands(ms) ==
    <<Send(PaginationCommand), Send(InventoryCommand)>>
        \o [i \in 1..Len(ms) |-> Send(DetailCommand(ms[i]))]

IsPrefix(a, b) == Len(a) <= Len(b) /\ SubSeq(b, 1, Len(a)) = a

\* C7: the device commands a run has sent are at every moment a prefix of
\* "term len 0", "show access-session", then one detail command per
\* inventory MAC in inventory order, and a run that returned has sent all of
\* them, each once.
C7_CommandOrder ==
    \A w \in Workers :
        LET sent == SelectSeq(log[w], IsSend)
            want == ExpectedCommands(mac_addresses[w])
        IN  /\ IsPrefix(sent, want)
            /\ pc[w] \in {"paging", "inventory"} => Len(sent) = (IF pc[w] = "paging" THEN 0 ELSE 1)
            /\ outcome[w].kind = "returned" => sent = want

C7_Witness ==
    \E w \in Workers :
        /\ outcome[w].kind = "returned"
        /\ Len(mac_addresses[w]) >= 2
        /\ mac_addresses[w][1] # mac_addresses[w][2]


(* --------------------------------- C8 ------------------------------------ *)

\* C8: the step at which a device command fails ends the run with that
\* command as its last call: it leaves static/result.json as it was and
\* returns nothing, and the ended run makes no call afterwards.
C8_AbortsWholesale ==
    [][\A w \in Workers :
          /\ (pc[w] # "raised" /\ pc'[w] = "raised"
                  /\ outcome'[w] = Raised("CommandError")) =>
                 /\ IsSend(log'[w][Len(log'[w])])
                 /\ Len(log'[w]) = Len(log[w]) + 1
                 /\ \A i \in 1..Len(log'[w]) : log'[w][i] # Write
                 /\ snapshot' = snapshot
          /\ pc[w] = "raised" =>
                 /\ pc'[w] = "raised"
                 /\ log'[w] = log[w]
                 /\ outcome'[w] = outcome[w]]_vars

\* A detail command failed after an entry had been collected: the run ended
\* with the partial result in hand and an earlier snapshot in the file.
C8_Witness ==
    \E w \in Workers :
        /\ outcome[w] = Raised("CommandError")
        /\ Len(dict_result[w]) >= 1
        /\ IsSend(log[w][Len(log[w])])
        /\ snapshot.exists
        /\ snapshot.content # Pformat(dict_result[w])

(* --------------------------------- C9 ------------------------------------ *)

\* First turn of the loop at which MAC m was queried and the reply held a
\* failure marker.
FirstMarked(w, m) ==
    CHOOSE i \in 1..Len(replies[w]) :
        /\ mac_addresses[w][i] = m /\ TextMarked(replies[w][i].text)
        /\ \A j \in 1..(i - 1) :
              ~(mac_addresses[w][j] = m /\ TextMarked(replies[w][j].text))

\* C9 as claimed: the keys of a returned result stand in the order of their
\* first occurrences in the inventory MAC list.
C9_OrderByFirstOccurrence ==
    \A w \in Workers :
        outcome[w].kind = "returned" =>
            \A a, b \in KeySet(outcome[w].value) :
                IndexOfKey(outcome[w].value, a) < IndexOfKey(outcome[w].value, b)
                    <=> FirstOccurrence(w, a) < FirstOccurrence(w, b)

\* C9 amended: the keys of a returned result stand in the order of their
\* first occurrences whose reply held a failure marker.
C9_OrderByFirstMarkedOccurrence ==
    \A w \in Workers :
        outcome[w].kind = "returned" =>
            \A a, b \in KeySet(outcome[w].value) :
                IndexOfKey(outcome[w].value, a) < IndexOfKey(outcome[w].value, b)
                    <=> FirstMarked(w, a) < FirstMarked(w, b)

\* A returned result with two keys, one of them queried twice with marked
\* replies around a marked reply of the other.
C9_Witness ==
    \E w \in Workers :
        /\ outcome[w].kind = "returned"
        /\ Len(outcome[w].value) = 2
        /\ Len(mac_addresses[w]) = 3
        /\ mac_addresses[w][1] = mac_addresses[w][3]
        /\ mac_addresses[w][1] # mac_addresses[w][2]
        /\ \A i \in 1..3 : replies[w][i].marker

(* --------------------------------- C10 ----------------------------------- *)

\* The vendor service was asked once for each finished turn whose reply was
\* marked and had the method mab in some case, and never otherwise.
LookupTurns(w) ==
    {i \in TurnsDone(w) :
        /\ replies[w][i].marker
        /\ Len(replies[w][i].method) > 0
        /\ Lower(replies[w][i].method[1]) = "mab"}

\* C10: an entry has a vendor field exactly when its method is mab in some
\* case, and the lookups made are exactly those of such sessions: one for
\* each finished turn of that kind, and one more while the turn of such a
\* session waits in time.sleep.
C10_VendorIffMab ==
    \A w \in Workers :
        /\ \A i \in 1..Len(dict_result[w]) :
              LET e == dict_result[w][i].val
              IN  ("vendor" \in DOMAIN e) <=> (Lower(e.method) = "mab")
        /\ Cardinality({i \in 1..Len(log[w]) : IsGet(log[w][i])})
               = Cardinality(LookupTurns(w)) + (IF pc[w] = "sleep" THEN 1 ELSE 0)

\* A result that holds an upper-case MAB entry with a vendor next to an
\* entry of another method without one.
C10_Witness ==
    \E w \in Workers :
        /\ outcome[w].kind = "returned"
        /\ \E i, j \in 1..Len(dict_result[w]) :
              /\ dict_result[w][i].val.method = "MAB"
              /\ "vendor" \in DOMAIN dict_result[w][i].val
              /\ dict_result[w][j].val.method \in {"dot1x", "Unknown"}
              /\ "vendor" \notin DOMAIN dict_result[w][j].val

(* --------------------------------- C11 ----------------------------------- *)

\* v is what (.*) captures behind the first occurrence of lit in text: the
\* text from there to the end of the line.
CapturedAfter(text, lit, v) ==
    \E j \in 1..Len(text) :
        /\ LitAt(text, j, lit)
        /\ \A k \in 1..(j - 1) : ~LitAt(text, k, lit)
        /\ LitAt(text, j + Len(lit), v)
        /\ ~Contains(v, "\n")
        /\ Ch(text, j + Len(lit) + Len(v)) \in {"\n", ""}

\* v is what (.*) captures behind the first occurrence of lit that
\* whitespace follows, and behind all of that whitespace.
CapturedAfterSpaces(text, lit, v) ==
    \E j \in 1..Len(text) :
        /\ LitAt(text, j, lit) /\ IsSpace(Ch(text, j + Len(lit)))
        /\ \A k \in 1..(j - 1) :
              ~(LitAt(text, k, lit) /\ IsSpace(Ch(text, k + Len(lit))))
        /\ \E from \in (j + Len(lit) + 1)..(Len(text) + 1) :
              /\ \A k \in (j + Len(lit))..(from - 1) : IsSpace(Ch(text, k))
              /\ ~IsSpace(Ch(text, from))
              /\ LitAt(text, from, v)
              /\ ~Contains(v, "\n")
              /\ Ch(text, from + Len(v)) \in {"\n", ""}

\* The field is the text behind the first occurrence of the label, up to the
\* end of the line, with or without the blanks that pad it on the left; it
\* is the sentinel when the label is not in the text.
LabelledField(text, lit, v, sentinel) ==
    IF Contains(text, lit)
    THEN \E pad \in {"", " ", "  "} :
            /\ CapturedAfter(text, lit, pad \o v)
            /\ (pad = "" \/ Ch(v, 1) # " ")
    ELSE v = sentinel

\* The field is the capture behind the first occurrence of the pattern's
\* literal, or the sentinel when the literal is not in the text.
PatternField(text, lit, v, sentinel) ==
    IF Contains(text, lit) THEN CapturedAfter(text, lit, v) ELSE v = sentinel

\* v is the first match of the MAC pattern, or dflt when there is none.
FirstMacOr(text, v, dflt) ==
    IF \E j \in 1..Len(text) : MacAt(text, j)
    THEN \E j \in 1..Len(text) :
            /\ MacAt(text, j) /\ LitAt(text, j, v) /\ Len(v) = 14
            /\ \A k \in 1..(j - 1) : ~MacAt(text, k)
    ELSE v = dflt

\* v is the first match of the IPv4 pattern, or "unknown".
FirstIpOr(text, v) ==
    IF \E j \in 1..Len(text) : IpLenAt(text, j) > 0
    THEN \E j \in 1..Len(text) :
            /\ IpLenAt(text, j) = Len(v) /\ LitAt(text, j, v) /\ Len(v) > 0
            /\ \A k \in 1..(j - 1) : IpLenAt(text, k) = 0
    ELSE v = "unknown"

\* v is the whole token that stands before whitespace and "Authc", or
\* "Unknown" when no line has one.
TokenBeforeAuthc(text, v) ==
    LET at == {j \in 1..Len(text) :
                  /\ IsWord(Ch(text, j)) /\ ~IsWord(Ch(text, j - 1))
                  /\ SpaceRun(text, j + WordRun(text, j)) >= 1
                  /\ LitAt(text, j + WordRun(text, j)
                               + SpaceRun(text, j + WordRun(text, j)), "Authc")}
    IN  IF at = {} THEN v = "Unknown"
        ELSE v = SubSeq(text, First(at), First(at) + WordRun(text, First(at)) - 1)

\* v is the first run of three to five word characters that ends at
\* whitespace followed by "Authc" and a whitespace character, or "Unknown".
MethodGroupOr(text, v) ==
    IF \E j \in 1..Len(text) : MethodLenAt(text, j) > 0
    THEN \E j \in 1..Len(text) :
            /\ MethodLenAt(text, j) = Len(v) /\ LitAt(text, j, v) /\ Len(v) > 0
            /\ \A k \in 1..(j - 1) : MethodLenAt(text, k) = 0
    ELSE v = "Unknown"

SixFields == {"status", "interface", "mac_address", "ip_address", "user_name", "method"}

ParsedCall == call.fn = "parse_detail" /\ call.done

\* C11: the parse of a reply with a failure marker gives the six
\* fields, status, interface and user_name being the text behind
\* "Status: ", "Interface: " and "User-Name: " up to the line end, method
\* the token before "Authc", each with its sentinel when absent.
C11_FieldsByLabel ==
    ParsedCall =>
        /\ DOMAIN call.out = SixFields
        /\ LabelledField(call.text, "Status: ", call.out.status, "Unknown")
        /\ LabelledField(call.text, "Interface: ", call.out.interface, "Unknown")
        /\ LabelledField(call.text, "User-Name: ", call.out.user_name, "Unknown")
        /\ FirstMacOr(call.text, call.out.mac_address, call.each)
        /\ FirstIpOr(call.text, call.out.ip_address)
        /\ TokenBeforeAuthc(call.text, call.out.method)

\* What the parse gives instead, field by field: status is the text behind
\* the first "Status:  " (two blanks) and interface the text behind the first
\* "Interface: ", up to the line end; user_name is the text, up to the line
\* end, behind the first "User-Name:" that whitespace follows and behind all
\* of that whitespace, line breaks included; method is the first run of three
\* to five word characters before whitespace, "Authc" and a whitespace
\* character; mac_address and ip_address are the first matches of their
\* patterns; each field has its sentinel when its pattern matches nowhere.
ParseFieldsByPattern ==
    ParsedCall =>
        /\ DOMAIN call.out = SixFields
        /\ PatternField(call.text, "Status:  ", call.out.status, "Unknown")
        /\ PatternField(call.text, "Interface: ", call.out.interface, "Unknown")
        /\ IF \E j \in 1..Len(call.text) :
                 LitAt(call.text, j, "User-Name:") /\ IsSpace(Ch(call.text, j + 10))
           THEN CapturedAfterSpaces(call.text, "User-Name:", call.out.user_name)
           ELSE call.out.user_name = "Unknown"
        /\ FirstMacOr(call.text, call.out.mac_address, call.each)
        /\ FirstIpOr(call.text, call.out.ip_address)
        /\ MethodGroupOr(call.text, call.out.method)

(* --------------------------------- C12 ----------------------------------- *)

\* v is three groups of four hexadecimal characters joined by symbol.
IsCanonicalMac(v, symbol) ==
    LET n == Len(symbol) IN
    /\ Len(v) = 12 + 2 * n
    /\ LitAt(v, 5, symbol)
    /\ LitAt(v, 9 + n, symbol)
    /\ \A k \in (1..4) \cup ((5 + n)..(8 + n)) \cup ((9 + 2 * n)..(12 + 2 * n)) :
          IsHex(Ch(v, k))

\* C12: mac_normalization gives "Error" or three groups of four hexadecimal
\* characters joined by the separator, never anything else, and
\* AA:BB:CC:DD:EE:FF with "." gives AABB.CCDD.EEFF.
C12_ErrorOrCanonical ==
    (call.fn = "mac_normalization" /\ call.done) =>
        /\ call.out = "Error" \/ IsCanonicalMac(call.out, call.symbol)
        /\ (call.mac = "AA:BB:CC:DD:EE:FF" /\ call.symbol = ".") =>
               call.out = "AABB.CCDD.EEFF"

(* --------------------------------- C13 ----------------------------------- *)

NoRunUnderWay == \A w \in DOMAIN pc : pc[w] \in {"idle", "done", "raised"}

HasReturned(w) == outcome[w].kind = "returned"

\* The last of the runs that have returned.
LastReturned ==
    CHOOSE w \in DOMAIN pc :
        HasReturned(w) /\ \A v \in DOMAIN pc : HasReturned(v) => v <= w

\* C13: between runs, once some run has returned, the snapshot file holds
\* exactly what the most recent run that returned gave back, and so no key
\* of an earlier run that this run did not produce.
C13_SnapshotIsLastReturned ==
    (NoRunUnderWay /\ \E w \in DOMAIN pc : HasReturned(w)) =>
        /\ snapshot = File(Pformat(outcome[LastReturned].value))
        /\ \A m \in Macs :
              Contains(snapshot.content, m) <=> DictHas(outcome[LastReturned].value, m)

\* An earlier run returned an entry, a later run returned a result without
\* that entry, a still later run raised, and the file has lost the entry.
C13_Witness ==
    /\ NoRunUnderWay
    /\ \E u, v, w \in DOMAIN pc :
          /\ u < v /\ v < w
          /\ HasReturned(u) /\ HasReturned(v) /\ pc[w] = "raised"
          /\ \E k \in KeySet(outcome[u].value) :
                k \notin KeySet(outcome[v].value) /\ ~Contains(snapshot.content, k)

(* --------------------------------- C14 ----------------------------------- *)

\* What run w holds of its own: the Device object, its handle and its
\* result map, and where main() stands.
OwnState(w) ==
    <<pc[w], connection[w], channel[w], session_count[w], mac_addresses[w],
      pos[w], dict_result[w], log[w], replies[w], outcome[w]>>

StepOf(w) == OwnState(w)' # OwnState(w)

\* Run w has written the snapshot file and has not returned yet.
HasJustWritten(w) == pc[w] = "return"

\* A step of one run leaves the Device, the handle and the result map of
\* every other run as they were.
RunsOwnTheirDevice ==
    [][\A v, w \in DOMAIN pc :
          (v # w /\ StepOf(v)) => OwnState(w)' = OwnState(w)]_vars

\* Both runs have returned and the file holds the dump of neither: the
\* shorter dump, written last, stands over the start of the longer one.
SnapshotOfNeitherRun ==
    /\ \A w \in DOMAIN pc : pc[w] = "done"
    /\ \A w \in DOMAIN pc : snapshot.content # Pformat(outcome[w].value)

\* C14: two runs under way at the same time share no mutable state: a step
\* of one run changes neither the Device, handle and result map of the other
\* nor the file the other run has written.
C14_RunsShareNothing ==
    [][\A v, w \in DOMAIN pc :
          (v # w /\ StepOf(v)) =>
              /\ OwnState(w)' = OwnState(w)
              /\ HasJustWritten(w) => snapshot' = snapshot]_vars

(* --------------------------------- C15 ----------------------------------- *)

RECURSIVE GroupsOfPages(_)
\* The id-to-name mapping of the groups of all pages of a chain.
GroupsOfPages(pages) ==
    IF Len(pages) = 0 THEN EmptyDict
    ELSE Update(GroupsOfPages(SubSeq(pages, 1, Len(pages) - 1)),
                pages[Len(pages)].resources)

GroupsCallOver == ise.pc \in {"returned", "raised"}

\* Every request of the call was answered with a page.
AllAnswered == ~(ise.pc = "raised" /\ ise.exc = "HTTPError")

\* C15: a call of get_group_id whose requests are all answered never asks
\* for more pages than the chain has, and once it is over it has returned
\* the id-to-name mapping of the groups of all pages after one request per
\* page, also when the last page carries no element nextPage.
C15_ReturnsGroupsOfAllPages ==
    /\ ise.pc \in {"loop", "returned", "raised"} => ise.requests <= Len(ise.pages)
    /\ (GroupsCallOver /\ AllAnswered) =>
          /\ ise.pc = "returned"
          /\ ise.out = GroupsOfPages(ise.pages)
          /\ ise.requests = Len(ise.pages)

\* On the chains whose last page has a nextPage with an empty href the call
\* does what C15 says.
GroupsReturnedOnEmptyHref ==
    (GroupsCallOver /\ AllAnswered /\ ise.pages[Len(ise.pages)].nextPage = "empty") =>
        /\ ise.pc = "returned"
        /\ ise.out = GroupsOfPages(ise.pages)
        /\ ise.requests = Len(ise.pages)

(* --------------------------------- C16 ----------------------------------- *)

\* The turns of the loop at which MAC m was queried.
Occurrences(w, m) == {i \in 1..Len(mac_addresses[w]) : mac_addresses[w][i] = m}

\* Those of them whose reply held a failure marker.
MarkedOccurrences(w, m) ==
    {i \in Occurrences(w, m) : TextMarked(replies[w][i].text)}

Max(S) == CHOOSE i \in S : \A j \in S : j <= i

IsDetailSend(e) == IsSend(e) /\ e.arg \notin {PaginationCommand, InventoryCommand}

\* Where in the log the detail command of turn i stands.
DetailSendAt(w, i) ==
    CHOOSE j \in 1..Len(log[w]) :
        /\ IsDetailSend(log[w][j])
        /\ Cardinality({k \in 1..j : IsDetailSend(log[w][k])}) = i

\* The vendor service was asked in turn i, right after the detail command.
LookupInTurn(w, i) ==
    /\ DetailSendAt(w, i) < Len(log[w])
    /\ IsGet(log[w][DetailSendAt(w, i) + 1])

\* The record turn i computed from its replies.
RecordOfTurn(w, i) ==
    LET r == replies[w][i]
    IN  IF "http" \in DOMAIN r
        THEN [k \in SixFields \cup {"vendor"} |->
                 IF k # "vendor" THEN r.details[k]
                 ELSE IF r.http.kind = "response" /\ r.http.status_code = 200
                      THEN r.http.text ELSE "Unknown"]
        ELSE r.details

\* C16: in a run that returned, for a MAC that occurs k > 1 times in the
\* inventory, the detail command was sent k times, once per occurrence, the
\* vendor service was asked in exactly the occurrences that were mab
\* failures, the result holds at most one entry for the MAC and holds one
\* exactly when some occurrence was marked, even when a later one was not;
\* the entry stands where the first marked occurrence put it and holds the
\* record of the last marked occurrence.
C16_DuplicatesCollapse ==
    \A w \in Workers :
        outcome[w].kind = "returned" =>
            \A m \in Macs :
                Cardinality(Occurrences(w, m)) > 1 =>
                    LET d == outcome[w].value IN
                    /\ Cardinality({j \in 1..Len(log[w]) :
                                       log[w][j] = Send(DetailCommand(m))})
                           = Cardinality(Occurrences(w, m))
                    /\ \A i \in Occurrences(w, m) :
                          /\ log[w][DetailSendAt(w, i)] = Send(DetailCommand(m))
                          /\ LookupInTurn(w, i) <=>
                                (i \in MarkedOccurrences(w, m) /\ i \in LookupTurns(w))
                    /\ Cardinality({i \in 1..Len(d) : d[i].key = m}) <= 1
                    /\ DictHas(d, m) <=> MarkedOccurrences(w, m) # {}
                    /\ DictHas(d, m) =>
                          /\ IndexOfKey(d, m) =
                                Cardinality({a \in KeySet(d) :
                                                FirstMarked(w, a) <= FirstMarked(w, m)})
                          /\ DictGet(d, m) = RecordOfTurn(w, Max(MarkedOccurrences(w, m)))

\* A run returned in which one MAC was queried three times: a mab failure
\* with a vendor, then a failure of another method, then a clean reply; the
\* entry holds the second record.
C16_Witness ==
    \E w \in Workers :
        /\ outcome[w].kind = "returned"
        /\ Len(mac_addresses[w]) = 3
        /\ Cardinality(Occurrences(w, mac_addresses[w][1])) = 3
        /\ "http" \in DOMAIN replies[w][1]
        /\ TextMarked(replies[w][2].text) /\ "http" \notin DOMAIN replies[w][2]
        /\ ~TextMarked(replies[w][3].text)
        /\ Len(outcome[w].value) = 1
        /\ "vendor" \notin DOMAIN outcome[w].value[1].val
        /\ outcome[w].value[1].val = replies[w][2].details

====
